---- MODULE Spec2Model ----
(***************************************************************************)
(* HapiMicroService: the request-lifecycle logging of Logger               *)
(* (logIncomingRequest / logOutgoingResponse / the unresponsiveness timer),*)
(* Context, Logger.serializeError, createHapiServer's event wiring and     *)
(* MicroService (constructor, start, replyHandler, handleContext).         *)
(*                                                                         *)
(* Five specifications share the module's variables:                       *)
(*   Spec           the server delivering 'request' and 'response' events  *)
(*                  of two requests to one Logger, the clock and Node's    *)
(*                  timers;                                                *)
(*   SpecReply      MicroService.replyHandler applied to bounded inputs;   *)
(*   SpecService    a MicroService constructed from its options, start()   *)
(*                  and the requests of its server;                        *)
(*   SpecContext    a Context constructed directly, its dt() calls as the  *)
(*                  clock advances, and MicroService.handleContext;        *)
(*   SpecSerialize  Logger.serializeError, one step per call and return of *)
(*                  getFullErrorStack.                                     *)
(***************************************************************************)
EXTENDS Integers, Sequences, FiniteSets, Bags, TLC

VARIABLES
    now,           \* Date.now(), in milliseconds (context.js:15, 29, 122)
    logger,        \* the Logger createHapiServer subscribed to the server's events
                   \* (microservice.js:243)
    request,       \* the hapi request objects: the x-request-id header, .context and
                   \* .response, with the count of events delivered and of calls that threw
    contexts,      \* the Context objects constructed while handling the events of each
                   \* request, in construction order (context.js:69, 106)
    timers,        \* Node's timer handles, one per context: that of the k-th context of a
                   \* request, or none (context.js:95)
    log,           \* the records handed to the bunyan sink, a bag (context.js:93-176)
    err,           \* replyHandler's argument err (microservice.js:131)
    data,          \* replyHandler's argument data
    cacheControl,  \* replyHandler's argument cacheControl
    result,        \* what the call under examination returned, or threw
    service,       \* the MicroService object: its configuration, its Logger, its server and
                   \* the progress of a start() call (microservice.js:39-68, 102-114)
    input,         \* the argument of the serializeError or handleContext call under
                   \* examination (context.js:249, microservice.js:194)
    frames,        \* the activation records of getFullErrorStack, innermost last
                   \* (context.js:268-277)
    standalone,    \* a Context constructed directly, with the arguments and the instant of
                   \* its construction (context.js:13-22)
    elapsed        \* what the dt() calls on it returned, each with the instant of the call
                   \* (context.js:28-30)

vars ==
    <<now, logger, request, contexts, timers, log, err, data, cacheControl, result,
      service, input, frames, standalone, elapsed>>
lifecycleVars == <<now, logger, request, contexts, timers, log>>
replyVars == <<err, data, cacheControl, result>>
unitVars == <<input, frames, standalone, elapsed>>

(***************************************************************************)
(* JavaScript values.  Every value is tagged with its type, so that        *)
(* truthiness, || and the relational operators are computed as JavaScript  *)
(* computes them.                                                          *)
(***************************************************************************)
Undef == [t |-> "undefined"]
Null == [t |-> "null"]
NaN == [t |-> "NaN"]
Num(n) == [t |-> "number", v |-> n]
Str(s) == [t |-> "string", v |-> s]
Bool(b) == [t |-> "boolean", v |-> b]
Obj(s) == [t |-> "object", v |-> s]

\* ToBoolean: undefined, null, NaN, 0, "" and false are falsy.
Truthy(x) ==
    CASE x.t = "undefined" -> FALSE
      [] x.t = "null" -> FALSE
      [] x.t = "NaN" -> FALSE
      [] x.t = "number" -> x.v # 0
      [] x.t = "string" -> x.v # ""
      [] x.t = "boolean" -> x.v
      [] OTHER -> TRUE

\* a || b
Or(a, b) == IF Truthy(a) THEN a ELSE b

\* The numeric strings among the inputs, with the number each converts to.
NumericStrings == [s \in {"450", "502"} |-> IF s = "450" THEN 450 ELSE 502]

\* ToNumber, as the relational operators apply it to a non-number operand.
ToNumber(x) ==
    CASE x.t = "number" -> x
      [] x.t = "string" ->
            IF x.v \in DOMAIN NumericStrings THEN Num(NumericStrings[x.v])
            ELSE IF x.v = "" THEN Num(0) ELSE NaN
      [] x.t = "null" -> Num(0)
      [] x.t = "boolean" -> IF x.v THEN Num(1) ELSE Num(0)
      [] OTHER -> NaN

\* x >= n and x < n for a number n: false as soon as an operand converts to NaN.
GreaterEq(x, n) == ToNumber(x).t = "number" /\ ToNumber(x).v >= n
LessThan(x, n) == ToNumber(x).t = "number" /\ ToNumber(x).v < n

(***************************************************************************)
(* MicroService.replyHandler and methodOutput.                             *)
(***************************************************************************)
\* The identifiers microservice.js binds at module level.
ModuleBindings ==
    {"path", "Boom", "crypto", "createServer", "Logger", "pkg", "Context",
     "_routePrefix", "_port", "methodOutput"}

\* The parameters and locals in scope on the success branch of replyHandler.
ReplyHandlerBindings ==
    {"err", "data", "responseToolkit", "cacheControl", "contentType", "results", "response"}

\* Evaluating an identifier no scope binds throws a ReferenceError.
Resolves(name) == name \in ModuleBindings \cup ReplyHandlerBindings

\* JSON.stringify of the data inputs.
JSONstringify(d) ==
    CASE d.t = "object" -> Str(d.v)
      [] d.t = "string" -> Str("\"" \o d.v \o "\"")
      [] d.t = "number" -> Str(ToString(d.v))
      [] d.t = "boolean" -> Str(IF d.v THEN "true" ELSE "false")
      [] d.t = "null" -> Str("null")
      [] OTHER -> Undef

\* crypto.createHash('md5').update(s).digest('hex'): a function of the bytes of s.
md5hex(s) == Str("md5:" \o s.v)

methodOutput(res) ==
    LET json == JSONstringify(res)
    IN  [data |-> res, hash |-> IF json.t = "string" THEN md5hex(json) ELSE Undef]

\* new Boom(err, {statusCode}): the wrapper's output.statusCode is parseInt(statusCode),
\* isServer is statusCode >= 500.
Boom(statusCode, headers, from) ==
    [kind |-> "boom", from |-> from, statusCode |-> ToNumber(statusCode).v,
     isServer |-> ToNumber(statusCode).v >= 500, headers |-> headers, toolkit |-> <<>>]

\* ErrorStatusCode passing an upstream 5xx through.
ErrorStatusCode_LeakUpstream(e) ==
    LET code == Or(e.code, e.statusCode)
    IN  IF Truthy(code) /\ GreaterEq(code, 400) /\ LessThan(code, 600) THEN code
        ELSE Num(404)

\* The status code replyHandler gives the wrapper of a present error.
ErrorStatusCode(e) ==
    LET code == Or(e.code, e.statusCode)
    IN  IF Truthy(code)
        THEN IF GreaterEq(code, 400) /\ LessThan(code, 500) THEN code
             ELSE IF GreaterEq(code, 500) /\ LessThan(code, 600) THEN Num(503)
             ELSE Num(404)
        ELSE Num(404)

\* replyHandler testing data before err: falsy data hides the error.
replyHandler_DataFirst(e, d, cc) ==
    IF ~Truthy(d)
    THEN Boom(Num(404), Obj("{}"), "notFound")
    ELSE IF Truthy(e)
    THEN Boom(ErrorStatusCode(e), IF Truthy(e.headers) THEN e.headers ELSE Obj("{}"), "err")
    ELSE [kind |-> "throw", error |-> "ReferenceError", toolkit |-> <<>>]

replyHandler(e, d, cc) ==
    IF Truthy(e)
    THEN Boom(ErrorStatusCode(e), IF Truthy(e.headers) THEN e.headers ELSE Obj("{}"), "err")
    ELSE IF ~Truthy(d)
    THEN Boom(Num(404), Obj("{}"), "notFound")
    ELSE IF ~Resolves("responseType")
    THEN [kind |-> "throw", error |-> "ReferenceError", toolkit |-> <<>>]
    ELSE LET results == methodOutput(d)
         IN  [kind |-> "response", body |-> results.data, type |-> "application/json",
              cacheControl |-> IF Truthy(cc) THEN cc ELSE Undef,
              etag |-> IF Truthy(results.hash) THEN results.hash ELSE Undef,
              toolkit |-> <<"response">>]

\* The values err.code and err.statusCode are drawn from.
CodeValues ==
    {Undef, Num(0), Num(200), Num(399), Num(400), Num(422), Num(499), Num(500),
     Num(502), Num(599), Num(600), Num(900), Str("ENOENT"), Str("450")}

\* An error object: its fields code, statusCode and headers (undefined when absent).
ErrObj(code, statusCode, headers) ==
    [t |-> "object", code |-> code, statusCode |-> statusCode, headers |-> headers]

ErrInputs ==
    {Null} \cup {ErrObj(c, s, h) : c \in CodeValues, s \in CodeValues,
                                   h \in {Undef, Obj("{retry-after:1}")}}

DataInputs == {Null, Undef, Num(0), Str(""), Bool(FALSE), Obj("{a:1}"), Str("ok"), Num(7)}

CacheControlInputs == {Undef, Str("max-age=60")}

NotCalled == [kind |-> "pending"]

(***************************************************************************)
(* Context, and the errors Logger.serializeError is given.                 *)
(***************************************************************************)
\* obj.f: undefined when the object has no such property.
Field(o, f) == IF f \in DOMAIN o THEN o[f] ELSE Undef

\* uuid.v4(): a fresh identifier for every call; seed names the call.
uuid_v4(seed) == Str("uuid-" \o seed[1] \o "-" \o ToString(seed[2]))

\* log && _.isFunction(log.child)
HasChild(parentLog) == "hasChild" \in DOMAIN parentLog /\ parentLog.hasChild

\* new Context(id, start, log), constructed at time `at`.
Context(id, start, parentLog, at, seed) ==
    [id |-> Or(id, uuid_v4(seed)),
     start |-> IF Truthy(start) THEN start.v ELSE at,
     log |-> IF HasChild(parentLog)
             THEN [present |-> TRUE, request_id |-> id]
             ELSE [present |-> FALSE, request_id |-> Undef],
     timer |-> 0]

\* An Error object: name, message, its stack when it has one, and its cause property:
\* a zero-argument accessor returning the error the reference names, some other
\* property, or none.
ErrorObject(name, message, at, cause) ==
    LET base == [t |-> "object", message |-> Str(message), name |-> Str(name)]
        stacked == IF at = "" THEN base
                   ELSE [f \in DOMAIN base \cup {"stack"} |->
                           IF f = "stack"
                           THEN Str(name \o ": " \o message \o "\n    at " \o at)
                           ELSE base[f]]
    IN  IF cause = Undef THEN stacked
        ELSE [f \in DOMAIN stacked \cup {"cause"} |->
                IF f = "cause" THEN cause ELSE stacked[f]]

\* A cause() accessor returning the error the reference names.
CauseFn(ref) == [t |-> "function", returns |-> ref]

\* The errors reachable through cause() accessors: an upstream failure; a chain outer,
\* mid (without a stack), inner, root (whose accessor returns null) and deep on top of
\* it; an error whose cause is a property, not an accessor; an error without a stack
\* that has a cause; and errors whose causes form a cycle.
ErrorHeap ==
    [h \in {"upstream", "root", "inner", "mid", "outer", "deep", "detached", "bare",
            "selfloop", "ping", "pong", "lead"} |->
        CASE h = "upstream" ->
                [t |-> "object", message |-> Str("connect ECONNREFUSED"),
                 name |-> Str("Error"),
                 stack |-> Str("Error: connect ECONNREFUSED\n    at upstream"),
                 code |-> Str("ECONNREFUSED")]
          [] h = "root" -> ErrorObject("Error", "disk full", "write", CauseFn("null"))
          [] h = "inner" -> ErrorObject("Error", "save failed", "save", CauseFn("root"))
          [] h = "mid" -> ErrorObject("VError", "store failed", "", CauseFn("inner"))
          [] h = "outer" -> ErrorObject("Error", "request failed", "handler", CauseFn("mid"))
          [] h = "deep" -> ErrorObject("Error", "reply failed", "reply", CauseFn("outer"))
          [] h = "detached" ->
                ErrorObject("Error", "with property", "route", Obj("upstream"))
          [] h = "bare" -> ErrorObject("Error", "thrown object", "", CauseFn("upstream"))
          [] h = "selfloop" -> ErrorObject("Error", "own cause", "loop", CauseFn("selfloop"))
          [] h = "ping" -> ErrorObject("Error", "ping", "ping", CauseFn("pong"))
          [] h = "pong" -> ErrorObject("Error", "pong", "pong", CauseFn("ping"))
          [] OTHER -> ErrorObject("Error", "leads in", "entry", CauseFn("ping"))]

\* ex.toString() of an error object.
toString(ex) ==
    IF Truthy(Field(ex, "message"))
    THEN Str(Or(Field(ex, "name"), Str("Error")).v \o ": " \o Field(ex, "message").v)
    ELSE Or(Field(ex, "name"), Str("Error"))

\* ex.cause(): the error the accessor refers to, null when it refers to none.
CallCause(cause) ==
    IF cause.returns \in DOMAIN ErrorHeap THEN ErrorHeap[cause.returns] ELSE Null

\* HasCause comparing typeof with 'Function': no cause is ever followed.
HasCause_TypeofTypo(ex) ==
    /\ Truthy(Field(ex, "cause"))
    /\ Field(ex, "cause").t = "Function"
    /\ Truthy(CallCause(Field(ex, "cause")))

\* ex.cause && typeof ex.cause === 'function', and ex.cause() returns a truthy value.
HasCause(ex) ==
    /\ Truthy(Field(ex, "cause"))
    /\ Field(ex, "cause").t = "function"
    /\ Truthy(CallCause(Field(ex, "cause")))

\* var ret = ex.stack || ex.toString()
OwnText(ex) == Or(Field(ex, "stack"), toString(ex))

\* CausedBy putting the cause's text first.
CausedBy_CauseFirst(ret, inner) == Str(inner.v \o "\nCaused by: " \o ret.v)

\* ret += '\nCaused by: ' + Logger.getFullErrorStack(cex)
CausedBy(ret, inner) == Str(ret.v \o "\nCaused by: " \o inner.v)

RECURSIVE getFullErrorStack(_)
getFullErrorStack(ex) ==
    IF HasCause(ex)
    THEN CausedBy(OwnText(ex), getFullErrorStack(CallCause(Field(ex, "cause"))))
    ELSE OwnText(ex)

\* ReturnsUnchanged testing the error only, not its stack.
ReturnsUnchanged_FalsyOnly(e) == ~Truthy(e)

\* if (!err || !err.stack) return err;
ReturnsUnchanged(e) == ~Truthy(e) \/ ~Truthy(Field(e, "stack"))

\* The record serializeError builds, given the full stack.
Serialized(e, fullStack) ==
    [message |-> Field(e, "message"), name |-> Field(e, "name"), stack |-> fullStack,
     code |-> Field(e, "code"), signal |-> Field(e, "signal"), data |-> Field(e, "data")]

serializeError(e) ==
    IF ReturnsUnchanged(e) THEN e ELSE Serialized(e, getFullErrorStack(e))

(***************************************************************************)
(* Logger and createHapiServer.                                            *)
(***************************************************************************)
DefaultLagProbeInterval == 250
DefaultUnresponsiveTimeout == 30000

\* Object.assign(target, source): the source's own properties over the target's; an
\* undefined source adds nothing.
ObjectAssign(target, source) ==
    IF source = Undef THEN target
    ELSE [f \in DOMAIN target \cup DOMAIN source |->
            IF f \in DOMAIN source THEN source[f] ELSE target[f]]

\* new Logger(logOptions, lagProbeInterval=250, unresponsiveTimeout=30000): a default
\* applies when the argument is undefined.  this.log is a bunyan logger, which has child.
Logger(logOptions, lagProbeInterval, unresponsiveTimeout) ==
    LET options ==
            ObjectAssign([name |-> "service", process |-> "service", level |-> "info"],
                         logOptions)
    IN  [log |-> [hasChild |-> TRUE, name |-> options.name, level |-> options.level],
         lagProbeInterval |->
            IF lagProbeInterval = Undef THEN DefaultLagProbeInterval
            ELSE lagProbeInterval.v,
         unresponsiveTimeout |->
            IF unresponsiveTimeout = Undef THEN DefaultUnresponsiveTimeout
            ELSE unresponsiveTimeout.v]

\* createHapiServer(userServerConfig, logger): the Logger the 'request' and 'response'
\* subscriptions call is  logger || new Logger().
createHapiServer(loggerArg) ==
    IF loggerArg = Undef THEN Logger(Undef, Undef, Undef) ELSE loggerArg

\* new MicroService(name, {server, log, lagProbeInterval, unresponsiveTimeout}), its
\* statements in the order the constructor runs them: createServer is handed this.log
\* (line 52) before this.log is assigned (line 53).
MicroService(name, config) ==
    LET logOptions == ObjectAssign([name |-> name, process |-> name], config.log)
        this == [name |-> name]
        server == createHapiServer(Field(this, "log"))
    IN  [made |-> TRUE, name |-> name, config |-> config,
         server |-> [logger |-> server, state |-> "stopped", failure |-> Undef,
                     events |-> 0],
         log |-> Logger(logOptions, config.lagProbeInterval, config.unresponsiveTimeout),
         pc |-> "idle", rejection |-> Undef]

\* No MicroService: createHapiServer used on its own.
NoService == [made |-> FALSE]

\* The grain of the clock, in milliseconds: a third of the default timeout.
TickMs == DefaultUnresponsiveTimeout \div 3
\* The clock is followed for this many grains.
MaxTicks == 3
\* The first and the last instant of the clock.
StartTime == TickMs
MaxTime == StartTime + MaxTicks * TickMs
\* 'request' and 'response' events the server delivers in all.
MaxEvents == 3

\* The unresponsiveTimeout values a caller configures a Logger with.
ConfiguredTimeouts == {TickMs}

\* The logger arguments createHapiServer is called with.
LoggerArgs ==
    {Undef} \cup {Logger([level |-> "info"], Num(DefaultLagProbeInterval), Num(t)) :
                    t \in ConfiguredTimeouts}

Requests == {"r1", "r2"}

\* The inbound x-request-id header of a request: absent, or the caller's identifier.
HeaderValues(r) == {Undef, Str("caller-" \o r)}

(***************************************************************************)
(* The responses hapi attaches to a request before the 'response' event.   *)
(***************************************************************************)
\* A Boom error wrapper: an Error with isBoom, isServer and output.
BoomResponse(statusCode, cause) ==
    [t |-> "object", isBoom |-> Bool(TRUE), isServer |-> Bool(statusCode >= 500),
     statusCode |-> statusCode, xRequestId |-> Undef,
     message |-> Str("failed"), name |-> Str("Error"),
     stack |-> Str("Error: failed\n    at handler"), data |-> Null, cause |-> cause]

\* A hapi response: source, statusCode and headers.
PlainResponse(statusCode, source) ==
    [t |-> "object", statusCode |-> statusCode, xRequestId |-> Undef, source |-> source]

Shapes == {"null", "boomServer", "boomClient", "failure", "success"}

\* request.response is null when the client closed the connection and nothing was sent.
ResponseOf(shape) ==
    CASE shape = "null" -> Null
      [] shape = "boomServer" -> BoomResponse(503, [t |-> "function", returns |-> "upstream"])
      [] shape = "boomClient" -> BoomResponse(404, Undef)
      [] shape = "failure" ->
            PlainResponse(200, [t |-> "object", success |-> Bool(FALSE),
                                message |-> Str("denied")])
      [] OTHER -> PlainResponse(200, [t |-> "object", success |-> Bool(TRUE)])

(***************************************************************************)
(* Logger.logIncomingRequest and Logger.logOutgoingResponse.               *)
(***************************************************************************)
NoError == [t |-> "absent"]

\* A record handed to the sink: the level, the message's kind, the request_id the child
\* logger is bound to, the request the data describes, the status and data.error.
Record(level, kind, ctx, r, status, error) ==
    [level |-> level, kind |-> kind, request_id |-> ctx.log.request_id, req |-> r,
     status |-> status, error |-> error]

\* setTimeout(callback, delay) at time `at`: a pending handle.
setTimeout(delay, at) == [state |-> "pending", due |-> at + delay]
NoHandle == [state |-> "none", due |-> 0]

\* clearTimeout(handle): cancels a pending timer; a no-op on a fired or cleared one.
clearTimeout(h) == IF h.state = "pending" THEN [h EXCEPT !.state = "cleared"] ELSE h

\* ClearTimer with the clearTimeout call left out: the property is deleted, the timer
\* stays scheduled.
ClearTimer_DeleteOnly(ctx, handles) ==
    [context |-> [ctx EXCEPT !.timer = 0], handles |-> handles, threw |-> FALSE]

\* ClearTimer without its guard, calling a method of context.timer: a TypeError when the
\* context has no timer.
ClearTimer_Unguarded(ctx, handles) ==
    [context |-> [ctx EXCEPT !.timer = 0],
     handles |-> IF ctx.timer # 0
                 THEN [handles EXCEPT ![ctx.timer] = clearTimeout(@)]
                 ELSE handles,
     threw |-> ctx.timer = 0]

\* if (context.timer) { clearTimeout(context.timer); delete context.timer; }
\* The guard keeps the block from throwing whatever the state of the timer.
ClearTimer(ctx, handles) ==
    [context |-> [ctx EXCEPT !.timer = 0],
     handles |-> IF ctx.timer # 0
                 THEN [handles EXCEPT ![ctx.timer] = clearTimeout(@)]
                 ELSE handles,
     threw |-> FALSE]

\* StampedId copying the inbound header instead of the context's id.
StampedId_InboundHeader(req, ctx) == req.xRequestId

\* The id stamped into the outgoing x-request-id header: context.id, in every branch.
StampedId(req, ctx) == ctx.id

IsFailure(response) ==
    /\ Truthy(Field(response, "source"))
    /\ Field(response.source, "success") = Bool(FALSE)

\* The level of the outgoing record.
OutgoingLevel(response) ==
    IF Truthy(Field(response, "isBoom"))
    THEN IF Truthy(response.isServer) THEN "error" ELSE "warn"
    ELSE IF IsFailure(response) THEN "error" ELSE "info"

\* DeleteStack that keeps the stack.
DeleteStack_Keep(e) == e

\* delete data.error.stack, when data.error.stack is truthy.
DeleteStack(e) ==
    IF Truthy(Field(e, "stack")) THEN [f \in DOMAIN e \ {"stack"} |-> e[f]] ELSE e

\* data.error of the outgoing record.
OutgoingError(response) ==
    IF Truthy(Field(response, "isBoom"))
    THEN IF Truthy(response.isServer)
         THEN serializeError(response)
         ELSE DeleteStack(serializeError(response))
    ELSE IF IsFailure(response) THEN serializeError(response.source) ELSE NoError

\* logIncomingRequest(request), called at time `now`.
logIncomingRequest(r) ==
    LET k == Len(contexts[r]) + 1
        context == Context(request[r].xRequestId, Null, logger.log, now, <<r, k>>)
    IN  /\ request' = [request EXCEPT ![r].context = k, ![r].reqEvents = @ + 1]
        /\ log' = log (+) SetToBag({Record("trace", "incoming", context, r, 0, NoError)})
        /\ contexts' = [contexts EXCEPT ![r] = Append(@, [context EXCEPT !.timer = k])]
        /\ timers' = [timers EXCEPT
                        ![r] = Append(@, setTimeout(logger.unresponsiveTimeout, now))]

\* The callback of the unresponsiveness timer of the k-th context of request r: it logs
\* through the context and the data its closure captured.
TimerCallback(r, k) ==
    /\ log' = log (+) SetToBag({Record("error", "unresponsive", contexts[r][k], r, 0,
                                       NoError)})
    /\ timers' = [timers EXCEPT ![r][k].state = "fired"]

\* Reading response.isBoom throws a TypeError when response is null or undefined.
ThrowsOnRead(response) == response.t \in {"null", "undefined"}

\* logOutgoingResponse(request), called at time `now` with request.response = response.
logOutgoingResponse(r, response) ==
    LET req == request[r]
        hasContext == req.context # 0
        k == IF hasContext THEN req.context ELSE Len(contexts[r]) + 1
        context == IF hasContext THEN contexts[r][k]
                   ELSE Context(req.xRequestId, Null, logger.log, now, <<r, k>>)
        heap == IF hasContext THEN contexts[r] ELSE Append(contexts[r], context)
        handles == IF hasContext THEN timers[r] ELSE Append(timers[r], NoHandle)
        cleared == ClearTimer(context, handles)
        called == [req EXCEPT !.respEvents = @ + 1, !.used = k,
                              !.firstRespAt = IF @ = 0 THEN now ELSE @]
    IN  /\ contexts' = [contexts EXCEPT ![r] = [heap EXCEPT ![k] = cleared.context]]
        /\ timers' = [timers EXCEPT ![r] = cleared.handles]
        /\ IF cleared.threw \/ ThrowsOnRead(response)
           THEN /\ request' = [request EXCEPT ![r] =
                                 [called EXCEPT !.response = response, !.throws = @ + 1]]
                /\ log' = log
           ELSE /\ request' = [request EXCEPT ![r] =
                                 [called EXCEPT !.response =
                                    [response EXCEPT !.xRequestId = StampedId(req, context)]]]
                /\ log' = log (+) SetToBag({Record(OutgoingLevel(response), "outgoing",
                                                   context, r, response.statusCode,
                                                   OutgoingError(response))})

(***************************************************************************)
(* The request lifecycle: the server's events, the clock and the timers.   *)
(***************************************************************************)
NewRequest(header) ==
    [xRequestId |-> header, context |-> 0, response |-> Null,
     reqEvents |-> 0, respEvents |-> 0, throws |-> 0, used |-> 0, firstRespAt |-> 0]

IdleReply ==
    /\ err = Null
    /\ data = Null
    /\ cacheControl = Undef
    /\ result = NotCalled

\* No Context constructed directly, no call under examination.
NoContext == [made |-> FALSE]

IdleUnit ==
    /\ input = Undef
    /\ frames = <<>>
    /\ standalone = NoContext
    /\ elapsed = <<>>

Init ==
    /\ now = StartTime
    /\ logger \in {createHapiServer(l) : l \in LoggerArgs}
    /\ \E h1 \in HeaderValues("r1"), h2 \in HeaderValues("r2") :
         request = [r \in Requests |-> NewRequest(IF r = "r1" THEN h1 ELSE h2)]
    /\ contexts = [r \in Requests |-> <<>>]
    /\ timers = [r \in Requests |-> <<>>]
    /\ log = EmptyBag
    /\ IdleReply
    /\ service = NoService
    /\ IdleUnit

\* The events delivered so far.
Delivered ==
    request["r1"].reqEvents + request["r1"].respEvents
        + request["r2"].reqEvents + request["r2"].respEvents

\* server.events.on('request', request => log.logIncomingRequest(request))
RequestEvent(r) ==
    /\ Delivered < MaxEvents
    /\ logIncomingRequest(r)
    /\ UNCHANGED <<now, logger, replyVars, service, unitVars>>

\* A response as hapi made it, before any x-request-id was stamped into its headers.
Unstamped(response) ==
    IF ThrowsOnRead(response) THEN response ELSE [response EXCEPT !.xRequestId = Undef]

\* server.events.on('response', request => log.logOutgoingResponse(request)); hapi has
\* set request.response, the same object at every delivery for one request.
ResponseEvent(r, shape) ==
    /\ Delivered < MaxEvents
    /\ request[r].respEvents > 0 => Unstamped(request[r].response) = ResponseOf(shape)
    /\ logOutgoingResponse(r, IF request[r].respEvents = 0 THEN ResponseOf(shape)
                              ELSE request[r].response)
    /\ UNCHANGED <<now, logger, replyVars, service, unitVars>>

\* Node runs the callback of a pending timer once its delay has elapsed.
TimerFires(r, k) ==
    /\ k \in DOMAIN timers[r]
    /\ timers[r][k].state = "pending"
    /\ now >= timers[r][k].due
    /\ TimerCallback(r, k)
    /\ UNCHANGED <<now, logger, request, contexts, replyVars, service, unitVars>>

\* The instants at which the pending timers become due.
PendingDue ==
    UNION {{timers[r][k].due : k \in {j \in DOMAIN timers[r] : timers[r][j].state = "pending"}} :
            r \in Requests}

\* The least of a set of instants.
Earliest(S) == CHOOSE x \in S : \A y \in S : x <= y

\* The clock advances, by a grain at most and never past the instant a pending timer
\* becomes due: a timer that is due runs before the clock moves on.
Tick ==
    /\ now < MaxTime
    /\ \A r \in Requests : \A k \in DOMAIN timers[r] :
          timers[r][k].state = "pending" => now < timers[r][k].due
    /\ now' = Earliest({now + TickMs, MaxTime} \cup PendingDue)
    /\ UNCHANGED <<logger, request, contexts, timers, log, replyVars, service, unitVars>>

Next ==
    \/ \E r \in Requests : RequestEvent(r)
    \/ \E r \in Requests : \E shape \in Shapes : ResponseEvent(r, shape)
    \/ \E r \in Requests : \E k \in 1..MaxEvents : TimerFires(r, k)
    \/ Tick

Spec == Init /\ [][Next]_vars

(***************************************************************************)
(* replyHandler applied to bounded inputs.                                 *)
(***************************************************************************)
IdleLifecycle ==
    /\ now = StartTime
    /\ logger = createHapiServer(Undef)
    /\ request = [r \in Requests |-> NewRequest(Undef)]
    /\ contexts = [r \in Requests |-> <<>>]
    /\ timers = [r \in Requests |-> <<>>]
    /\ log = EmptyBag

InitReply ==
    /\ IdleLifecycle
    /\ err \in ErrInputs
    /\ data \in DataInputs
    /\ cacheControl \in CacheControlInputs
    /\ result = NotCalled
    /\ service = NoService
    /\ IdleUnit

\* MicroService.replyHandler(err, data, responseToolkit, cacheControl)
CallReplyHandler ==
    /\ result = NotCalled
    /\ result' = replyHandler(err, data, cacheControl)
    /\ UNCHANGED <<err, data, cacheControl, lifecycleVars, service, unitVars>>

NextReply == CallReplyHandler

SpecReply == InitReply /\ [][NextReply]_vars

(***************************************************************************)
(* A MicroService: its construction, start(), and the requests its server  *)
(* delivers to the Logger the constructor subscribed.                      *)
(***************************************************************************)
ServiceName == "svc"

\* The options a MicroService is constructed with; undefined is an omitted option.
Configs ==
    {[log |-> l, lagProbeInterval |-> p, unresponsiveTimeout |-> u] :
        l \in {Undef, [level |-> "debug"]},
        p \in {Undef, Num(100)},
        u \in {Undef, Num(TickMs), Num(2 * TickMs)}}

\* The errors server.start() rejects with.
StartErrors ==
    {[t |-> "object", message |-> Str("listen " \o c), name |-> Str("Error"),
      stack |-> Str("Error: listen " \o c \o "\n    at Server.listen"), code |-> Str(c)] :
        c \in {"EADDRINUSE", "EACCES"}}

\* A record a Logger method hands to the sink outside any request.
ServiceRecord(level, msg, d) ==
    [level |-> level, kind |-> msg, request_id |-> Undef, req |-> "", data |-> d]

\* logError(msg, err): this.log.error({err: Logger.serializeError(err)}, msg)
logError(msg, e) == ServiceRecord("error", msg, [err |-> serializeError(e)])

\* logInfo(msg, data): a string becomes {info: data}, a falsy value {}.
logInfo(msg, d) ==
    LET given == Or(d, Obj("{}"))
    IN  ServiceRecord("info", msg, IF given.t = "string" THEN [info |-> given] ELSE given)

FailedToStart == ServiceName \o " failed to start"
ServerStarted == ServiceName \o " Server Started"

\* The data of the 'Server Started' record.
PortAndPrefix == Obj("{port,prefix}")

\* The catch block of start() falling through instead of rethrowing.
CatchBlock_Swallow(svc) ==
    [records |-> SetToBag({logError(FailedToStart, Undef),
                           logInfo(ServerStarted, PortAndPrefix)}),
     service |-> [svc EXCEPT !.pc = "resolved", !.server.events = @ + 1]]

\* catch(err) { this.log.logError(`${this.name} failed to start`); throw err; }
CatchBlock(svc) ==
    [records |-> SetToBag({logError(FailedToStart, Undef)}),
     service |-> [svc EXCEPT !.pc = "rejected", !.rejection = svc.server.failure]]

InitService ==
    /\ now = StartTime
    /\ \E config \in Configs : service = MicroService(ServiceName, config)
    /\ logger = service.server.logger
    /\ \E h \in HeaderValues("r1") :
         request = [r \in Requests |-> NewRequest(IF r = "r1" THEN h ELSE Undef)]
    /\ contexts = [r \in Requests |-> <<>>]
    /\ timers = [r \in Requests |-> <<>>]
    /\ log = EmptyBag
    /\ IdleReply
    /\ IdleUnit

\* start() is called: it awaits this.server.start().
CallStart ==
    /\ service.pc = "idle"
    /\ service' = [service EXCEPT !.pc = "awaiting"]
    /\ UNCHANGED <<lifecycleVars, replyVars, unitVars>>

\* hapi: the server is listening, the promise of server.start() resolves.
ServerStarts ==
    /\ service.pc = "awaiting"
    /\ service.server.state = "stopped"
    /\ service' = [service EXCEPT !.server.state = "started"]
    /\ UNCHANGED <<lifecycleVars, replyVars, unitVars>>

\* hapi: the server could not start, the promise of server.start() rejects with e.
ServerFailsToStart(e) ==
    /\ service.pc = "awaiting"
    /\ service.server.state = "stopped"
    /\ service' = [service EXCEPT !.server.state = "failed", !.server.failure = e]
    /\ UNCHANGED <<lifecycleVars, replyVars, unitVars>>

\* start() resumes after the await: logInfo, then this.server.log('info', ...), an
\* event of the hapi server, which has no subscriber.
StartResumes ==
    /\ service.pc = "awaiting"
    /\ service.server.state = "started"
    /\ log' = log (+) SetToBag({logInfo(ServerStarted, PortAndPrefix)})
    /\ service' = [service EXCEPT !.pc = "resolved", !.server.events = @ + 1]
    /\ UNCHANGED <<now, logger, request, contexts, timers, replyVars, unitVars>>

\* start() resumes in its catch block.
StartCatches ==
    /\ service.pc = "awaiting"
    /\ service.server.state = "failed"
    /\ log' = log (+) CatchBlock(service).records
    /\ service' = CatchBlock(service).service
    /\ UNCHANGED <<now, logger, request, contexts, timers, replyVars, unitVars>>

\* The started server delivers the 'request' events of a request.
ServiceRequest(r) ==
    /\ service.server.state = "started"
    /\ RequestEvent(r)

NextService ==
    \/ CallStart
    \/ ServerStarts
    \/ \E e \in StartErrors : ServerFailsToStart(e)
    \/ StartResumes
    \/ StartCatches
    \/ ServiceRequest("r1")
    \/ \E k \in 1..MaxEvents : TimerFires("r1", k)
    \/ Tick

SpecService == InitService /\ [][NextService]_vars

(***************************************************************************)
(* Context constructed directly, dt(), and MicroService.handleContext.     *)
(***************************************************************************)
\* dt() subtracting the wrong way round.
dt_Reversed(c, at) == c.start - at

\* dt(): Date.now() - this.start, called at time `at`.
dt(c, at) == at - c.start

\* dt() calls followed on one Context.
MaxCalls == 2

\* The arguments a Context is constructed with.
IdInputs == {Undef, Null, Str(""), Str("abc")}
\* A start: omitted, falsy, earlier than the construction, or later than it.
StartInputs == {Undef, Null, Num(0), Num(TickMs \div 2), Num(StartTime + 2 * TickMs)}
\* A parent log handle: omitted, an object without a child method, a bunyan logger.
ParentLogInputs ==
    {Undef, Null, [t |-> "object", hasChild |-> FALSE], Logger(Undef, Undef, Undef).log}

\* A class constructor runs only under `new`: called as a plain function it throws a
\* TypeError before its body runs.
Invoke(withNew, id, start, parentLog, at, seed) ==
    IF withNew THEN [kind |-> "returned", value |-> Context(id, start, parentLog, at, seed)]
    ELSE [kind |-> "throw", error |-> "TypeError", where |-> "Context()"]

\* handleContext(request={}): the default replaces an undefined argument only.
handleContext(req, at) ==
    LET given == IF req = Undef THEN [t |-> "object"] ELSE req
        headers == Field(given, "headers")
    IN  IF ThrowsOnRead(given)
        THEN [kind |-> "throw", error |-> "TypeError", where |-> "request.headers"]
        ELSE IF ThrowsOnRead(headers)
        THEN [kind |-> "throw", error |-> "TypeError",
              where |-> "request.headers['x-request-id']"]
        ELSE IF Truthy(Field(headers, "xRequestId"))
        THEN [kind |-> "returned", value |-> [xRequestId |-> headers.xRequestId]]
        ELSE LET made == Invoke(FALSE, Undef, Undef, Undef, at, <<"handleContext", 1>>)
             IN  IF made.kind = "throw" THEN made
                 ELSE [kind |-> "returned", value |-> [xRequestId |-> made.value.id]]

\* The requests handleContext is called with: no argument, null, an object without
\* headers, headers without x-request-id, headers with it.
HandleContextInputs ==
    {Undef, Null, [t |-> "object"],
     [t |-> "object", headers |-> [t |-> "object"]],
     [t |-> "object", headers |-> [t |-> "object", xRequestId |-> Str("")]],
     [t |-> "object", headers |-> [t |-> "object", xRequestId |-> Str("caller-1")]]}

InitContext ==
    /\ IdleLifecycle
    /\ IdleReply
    /\ service = NoService
    /\ IdleUnit

\* new Context(id, start, parentLog)
NewContext(id, start, parentLog) ==
    /\ standalone = NoContext
    /\ result = NotCalled
    /\ standalone' =
          [made |-> TRUE, args |-> [id |-> id, start |-> start, log |-> parentLog],
           at |-> now,
           object |-> Invoke(TRUE, id, start, parentLog, now, <<"direct", 1>>).value]
    /\ UNCHANGED <<lifecycleVars, replyVars, service, input, frames, elapsed>>

\* context.dt()
CallDt ==
    /\ standalone # NoContext
    /\ Len(elapsed) < MaxCalls
    /\ elapsed' = Append(elapsed, [at |-> now, dt |-> dt(standalone.object, now)])
    /\ UNCHANGED <<lifecycleVars, replyVars, service, input, frames, standalone>>

\* MicroService.handleContext(req)
CallHandleContext(req) ==
    /\ standalone = NoContext
    /\ result = NotCalled
    /\ input' = req
    /\ result' = handleContext(req, now)
    /\ UNCHANGED <<lifecycleVars, err, data, cacheControl, service, frames, standalone,
                   elapsed>>

NextContext ==
    \/ \E id \in IdInputs, start \in StartInputs, parentLog \in ParentLogInputs :
          NewContext(id, start, parentLog)
    \/ CallDt
    \/ \E req \in HandleContextInputs : CallHandleContext(req)
    \/ Tick

SpecContext == InitContext /\ [][NextContext]_vars

(***************************************************************************)
(* Logger.serializeError run step by step: every call of getFullErrorStack *)
(* is an activation record on the call stack, so that a traversal that     *)
(* does not come back is a behaviour, not an evaluation.                   *)
(***************************************************************************)
\* The activation records the call stack has room for; one more call throws
\* RangeError: Maximum call stack size exceeded.
MaxStack == 16

\* The values serializeError is called with: falsy values, a string, an object that is
\* not an error, the errors of the heap and what logOutgoingResponse serializes.
SerializeInputs ==
    {Undef, Null, Str(""), Num(0), Str("boom"), [t |-> "object", message |-> Str("plain")]}
        \cup {ErrorHeap[h] : h \in DOMAIN ErrorHeap}
        \cup {ResponseOf("boomServer"), ResponseOf("boomClient"),
              ResponseOf("failure").source}

\* The activation record of getFullErrorStack(ex), after  var ret = ...
Frame(ex) == [ex |-> ex, ret |-> OwnText(ex)]

\* A call in progress: what the innermost finished call returned, if any has, and the
\* errors getFullErrorStack was called with so far.
Running(acc, visited) == [kind |-> "running", acc |-> acc, visited |-> visited]

InitSerialize ==
    /\ IdleLifecycle
    /\ IdleReply
    /\ service = NoService
    /\ IdleUnit

\* Logger.serializeError(e): returns e, or starts building the record with a call of
\* getFullErrorStack(e).
CallSerializeError(e) ==
    /\ result = NotCalled
    /\ input' = e
    /\ IF ReturnsUnchanged(e)
       THEN /\ result' = [kind |-> "returned", value |-> e, visited |-> <<>>]
            /\ frames' = <<>>
       ELSE /\ result' = Running(Undef, <<e>>)
            /\ frames' = <<Frame(e)>>
    /\ UNCHANGED <<lifecycleVars, err, data, cacheControl, service, standalone, elapsed>>

\* The innermost call finds a cause and calls getFullErrorStack(cex); without room for
\* its activation record the call throws a RangeError, which nothing catches.
Descend ==
    /\ result.kind = "running"
    /\ result.acc = Undef
    /\ HasCause(frames[Len(frames)].ex)
    /\ LET cex == CallCause(frames[Len(frames)].ex.cause)
       IN  IF Len(frames) >= MaxStack
           THEN /\ frames' = <<>>
                /\ result' = [kind |-> "throw", error |-> "RangeError",
                              visited |-> result.visited]
           ELSE /\ frames' = Append(frames, Frame(cex))
                /\ result' = Running(Undef, Append(result.visited, cex))
    /\ UNCHANGED <<lifecycleVars, err, data, cacheControl, service, input, standalone,
                   elapsed>>

\* The innermost call returns ret: its own text, followed by what the call it made
\* returned.  The outermost return completes the record of serializeError.
Return ==
    /\ result.kind = "running"
    /\ result.acc # Undef \/ ~HasCause(frames[Len(frames)].ex)
    /\ LET top == frames[Len(frames)]
           ret == IF result.acc = Undef THEN top.ret ELSE CausedBy(top.ret, result.acc)
       IN  IF Len(frames) = 1
           THEN /\ frames' = <<>>
                /\ result' = [kind |-> "returned", value |-> Serialized(top.ex, ret),
                              visited |-> result.visited]
           ELSE /\ frames' = SubSeq(frames, 1, Len(frames) - 1)
                /\ result' = Running(ret, result.visited)
    /\ UNCHANGED <<lifecycleVars, err, data, cacheControl, service, input, standalone,
                   elapsed>>

NextSerialize ==
    \/ \E e \in SerializeInputs : CallSerializeError(e)
    \/ Descend
    \/ Return

\* The event loop runs a call to its end: a step that can be taken is taken.
SpecSerialize == InitSerialize /\ [][NextSerialize]_vars /\ WF_vars(Descend \/ Return)

(***************************************************************************)
(* Properties of the request lifecycle (Spec).                             *)
(***************************************************************************)
RECURSIVE Copies(_)
\* The records of the set S in the log, counted with their multiplicity.
Copies(S) ==
    IF S = {} THEN 0
    ELSE LET x == CHOOSE y \in S : TRUE
         IN  CopiesIn(x, log) + Copies(S \ {x})

\* The 'is unresponsive' records emitted with the data of request r.
Unresponsive(r) ==
    Copies({x \in BagToSet(log) : x.kind = "unresponsive" /\ x.req = r})

\* The contexts logIncomingRequest attached to request r, each with the timer it armed.
Armed(r) == {k \in DOMAIN timers[r] : timers[r][k].state # "none"}

\* The timers of request r still scheduled.
Pending(r) == {k \in DOMAIN timers[r] : timers[r][k].state = "pending"}

\* Request r had its incoming event logged once, before any response event: the context
\* that call attached is the only one constructed for r.
SingleIncoming(r) == request[r].reqEvents = 1 /\ Len(contexts[r]) = 1

\* C1: for a request whose incoming event was logged (arming the timer), a response
\* logged before unresponsiveTimeout elapsed means no 'is unresponsive' record is ever
\* emitted for it; with no response logged by the time the timeout has elapsed, exactly
\* one such record is emitted; never more than one.
C1_TimerContract ==
    \A r \in Requests :
        SingleIncoming(r) =>
            /\ Unresponsive(r) <= 1
            /\ (request[r].respEvents > 0 /\ request[r].firstRespAt < timers[r][1].due)
                    => Unresponsive(r) = 0
            /\ (/\ now > timers[r][1].due
                /\ request[r].respEvents = 0 \/ request[r].firstRespAt > timers[r][1].due)
                    => Unresponsive(r) = 1

\* One request answered before its timeout and silent after it, another left unanswered
\* whose timer fired.
C1_Witness ==
    \E r \in Requests : \E o \in Requests \ {r} :
        /\ SingleIncoming(r) /\ SingleIncoming(o)
        /\ request[r].respEvents > 0 /\ request[r].firstRespAt < timers[r][1].due
        /\ now > timers[r][1].due /\ Unresponsive(r) = 0
        /\ request[o].respEvents = 0 /\ timers[o][1].state = "fired" /\ Unresponsive(o) = 1

\* C2: whatever request and response events the server delivers for a request, one
\* Context only is ever attached to it and the unresponsiveness timer is armed once: at
\* most one timer is pending per request.
C2_OneContextOneTimer ==
    \A r \in Requests :
        /\ Cardinality(Armed(r)) <= 1
        /\ Cardinality(Pending(r)) <= 1

\* C3: after logOutgoingResponse has returned for a request, the response's outgoing
\* x-request-id header equals the id of the context the call used, in the error-wrapper
\* branch, the source.success === false branch and the success branch alike.
C3_RequestIdStamped ==
    \A r \in Requests :
        (request[r].respEvents > request[r].throws) =>
            request[r].response.xRequestId = contexts[r][request[r].used].id

\* An error wrapper returned for a request that came without an x-request-id header,
\* stamped with the generated id.
C3_Witness ==
    \E r \in Requests :
        /\ request[r].respEvents > request[r].throws
        /\ request[r].xRequestId = Undef
        /\ Truthy(Field(request[r].response, "isBoom"))
        /\ request[r].response.xRequestId = contexts[r][request[r].used].id

\* The record a logOutgoingResponse call for request r added to the log in this step,
\* when it added exactly one.
AddedOne(rec) == log' = log (+) SetToBag({rec})

\* A logOutgoingResponse call for request r took place in this step, on a request that
\* carries a response.
Classified(r) ==
    /\ request'[r].respEvents = request[r].respEvents + 1
    /\ ~ThrowsOnRead(request'[r].response)

\* C7: a logOutgoingResponse call that classifies a response emits exactly one record:
\* at error level with the serialized error and its stack for a server-class error
\* wrapper, at warning level without the stack field for a client-class error wrapper,
\* at error level with the serialized source when source.success === false, and at info
\* level without an error field for any other response.
C7_OneRecordPerResponse ==
    [][\A r \in Requests :
        Classified(r) =>
            \E rec \in BagToSet(log') :
                /\ AddedOne(rec)
                /\ rec.kind = "outgoing" /\ rec.req = r
                /\ LET response == request'[r].response
                   IN  IF Truthy(Field(response, "isBoom"))
                       THEN IF Truthy(response.isServer)
                            THEN /\ rec.level = "error"
                                 /\ Truthy(Field(rec.error, "stack"))
                                 /\ rec.error = serializeError(response)
                            ELSE /\ rec.level = "warn"
                                 /\ "stack" \notin DOMAIN rec.error
                                 /\ rec.error.message = response.message
                       ELSE IF IsFailure(response)
                            THEN /\ rec.level = "error"
                                 /\ rec.error = serializeError(response.source)
                            ELSE /\ rec.level = "info"
                                 /\ rec.error = NoError]_vars

\* A client-class error wrapper was logged at warning level, its stack stripped, and a
\* server-class one at error level with the stacks of the error and of its cause.
C7_Witness ==
    /\ \E rec \in BagToSet(log) :
          /\ rec.kind = "outgoing" /\ rec.level = "warn"
          /\ "stack" \notin DOMAIN rec.error
    /\ \E rec \in BagToSet(log) :
          /\ rec.kind = "outgoing" /\ rec.level = "error" /\ rec.status = 503
          /\ rec.error.stack =
               Str("Error: failed\n    at handler\nCaused by: "
                   \o "Error: connect ECONNREFUSED\n    at upstream")

\* C8: request-lifecycle logging never throws, whatever request the server delivers: a
\* request without a response included.
C8_LoggingNeverThrows ==
    \A r \in Requests : request[r].throws = 0

\* The timer of the k-th context of request r was cleared by logOutgoingResponse.
Cleared(r, k) == timers[r][k].state # "none" /\ contexts[r][k].timer = 0

\* C9: clearing the timer is idempotent under duplicated and out-of-order events: a
\* logOutgoingResponse call on a request that carries a response returns normally when it
\* is the second for its request, when it precedes the request event and when the timer
\* has fired already; and a timer never fires once it has been cleared.
C9_ClearIsIdempotent ==
    [][\A r \in Requests :
        /\ Classified(r) => request'[r].throws = request[r].throws
        /\ \A k \in DOMAIN timers[r] :
              Cleared(r, k) => timers'[r][k].state = timers[r][k].state]_vars

\* The response event of a request was delivered twice, after its timer had fired, and
\* both calls returned.
C9_Witness ==
    \E r \in Requests :
        /\ request[r].respEvents = 2 /\ request[r].throws = 0
        /\ \E k \in DOMAIN timers[r] :
              timers[r][k].state = "fired" /\ contexts[r][k].timer = 0

\* C10: requests are isolated: an event or a timer firing of one request leaves the
\* contexts and timers of the other unchanged, and the 'is unresponsive' record a timer
\* emits carries the id of its own context and the data of its own request.
C10_Isolation ==
    [][\A r \in Requests :
        /\ \A o \in Requests \ {r} :
              (request'[r] # request[r] \/ timers'[r] # timers[r])
                  => contexts'[o] = contexts[o] /\ timers'[o] = timers[o]
        /\ \A k \in DOMAIN timers[r] :
              (timers[r][k].state = "pending" /\ timers'[r][k].state = "fired")
                  => \E rec \in BagToSet(log') :
                        /\ AddedOne(rec)
                        /\ rec.kind = "unresponsive"
                        /\ rec.req = r
                        /\ rec.request_id = contexts[r][k].id]_vars

(***************************************************************************)
(* Properties of replyHandler (SpecReply).                                 *)
(***************************************************************************)
\* replyHandler was called with an error.
CalledWithError == result # NotCalled /\ Truthy(err)

\* C4: for a present error the wrapper's statusCode is the extracted code when
\* 400 <= code < 500, 503 when 500 <= code < 600 and 404 in every other case; it is
\* always in 400..499 or 503.
C4_StatusMapping ==
    CalledWithError =>
        LET code == ToNumber(Or(err.code, err.statusCode))
            Within(lo, hi) == code.t = "number" /\ lo <= code.v /\ code.v < hi
        IN  /\ result.kind = "boom"
            /\ Within(400, 500) => result.statusCode = code.v
            /\ Within(500, 600) => result.statusCode = 503
            /\ ~Within(400, 600) => result.statusCode = 404
            /\ result.statusCode \in (400..499) \cup {503}

\* An upstream 502 came back as 503.
C4_Witness ==
    /\ CalledWithError
    /\ err.code = Num(502)
    /\ result.kind = "boom" /\ result.statusCode = 503 /\ result.isServer

\* A number in 400..599, and the status it maps to.
IsStatus(v) == v.t = "number" /\ 400 <= v.v /\ v.v < 600
Mapped(n) == IF n < 500 THEN n ELSE 503

\* A field that is absent or holds no number: undefined, or a string error name.
NotANumber(v) == ToNumber(v) = NaN

\* C5: when one of err.code and err.statusCode is a number in 400..599 and the other is
\* absent or not a number, the statusCode is derived from the numeric field.
C5_NumericFieldDecides ==
    CalledWithError =>
        /\ (IsStatus(err.code) /\ NotANumber(err.statusCode))
              => result.statusCode = Mapped(err.code.v)
        /\ (IsStatus(err.statusCode) /\ NotANumber(err.code))
              => result.statusCode = Mapped(err.statusCode.v)

\* C6: replyHandler(null, data, toolkit, cacheControl) with truthy JSON-serializable
\* data returns the toolkit's response with content type application/json and an etag
\* equal to the hash of the serialized data.
C6_SuccessResponse ==
    (result # NotCalled /\ ~Truthy(err) /\ Truthy(data)
        /\ JSONstringify(data).t = "string")
        => /\ result.kind = "response"
           /\ result.type = "application/json"
           /\ result.etag = md5hex(JSONstringify(data))

\* C16: with no error and falsy data (null, undefined, 0, '', false) replyHandler returns
\* the generic not-found outcome, status 404, and never calls the response toolkit; with
\* an error it returns the error outcome whatever the data, falsy or not.
C16_NotFoundOnFalsyData ==
    result # NotCalled =>
        /\ (~Truthy(err) /\ ~Truthy(data)) =>
              /\ result.kind = "boom"
              /\ result.from = "notFound"
              /\ result.statusCode = 404
              /\ result.toolkit = <<>>
        /\ Truthy(err) =>
              /\ result.kind = "boom"
              /\ result.from = "err"
              /\ result.toolkit = <<>>

\* replyHandler(null, 0, toolkit) has returned the not-found outcome.
C16_Witness ==
    /\ ~Truthy(err)
    /\ data = Num(0)
    /\ result.kind = "boom"
    /\ result.from = "notFound"

(***************************************************************************)
(* Properties of a MicroService (SpecService).                             *)
(***************************************************************************)
\* The value an option takes: the configured one, the default when it is omitted.
Configured(option, default) == IF option = Undef THEN default ELSE option.v

\* C11: the Logger that handles the request events of a MicroService's server is
\* configured with the options given to the constructor: every timer armed for a request
\* is due unresponsiveTimeout after the request came in, the lag sampler runs at
\* lagProbeInterval and the level is the configured one, the defaults applying only to
\* an omitted option.
C11_ConfiguredLogger ==
    \A k \in Armed("r1") :
        /\ timers["r1"][k].due - contexts["r1"][k].start
              = Configured(service.config.unresponsiveTimeout, DefaultUnresponsiveTimeout)
        /\ logger.lagProbeInterval
              = Configured(service.config.lagProbeInterval, DefaultLagProbeInterval)
        /\ logger.log.level
              = IF service.config.log = Undef THEN "info" ELSE service.config.log.level

\* The records start() emitted, among the records of the sink.
StartRecords == {x \in BagToSet(log) : x.req = ""}
FailedRecord == logError(FailedToStart, Undef)
StartedRecord == logInfo(ServerStarted, PortAndPrefix)

\* C19: start() orders its effects around server.start().  Once it has rejected, the
\* sink holds one error-level '<name> failed to start' record and no 'Server Started'
\* record, and the rejection is the error server.start() failed with; once it has
\* resolved, the sink holds exactly one info-level 'Server Started' record and no error
\* record of start(); a 'Server Started' record is in the sink only when the server has
\* started, and before start() resumes the sink holds no record of it.
C19_StartOrdersEffects ==
    /\ service.pc = "rejected" =>
          /\ StartRecords = {FailedRecord}
          /\ CopiesIn(FailedRecord, log) = 1
          /\ FailedRecord.level = "error"
          /\ service.server.state = "failed"
          /\ service.rejection = service.server.failure
    /\ service.pc = "resolved" =>
          /\ StartRecords = {StartedRecord}
          /\ CopiesIn(StartedRecord, log) = 1
          /\ StartedRecord.level = "info"
    /\ service.pc \in {"idle", "awaiting"} => StartRecords = {}
    /\ CopiesIn(StartedRecord, log) > 0 => service.server.state = "started"

\* start() has rejected with the error server.start() failed with.
C19_Witness ==
    /\ service.pc = "rejected"
    /\ service.rejection \in StartErrors
    /\ CopiesIn(FailedRecord, log) = 1

(***************************************************************************)
(* Properties of Context and handleContext (SpecContext).                  *)
(***************************************************************************)
\* C12: a Context constructed with a parent log handle that has a child method carries a
\* child log handle tagged with request_id equal to the context's id, whether the id was
\* supplied or generated; with a parent handle without child, its log is unset.
C12_ChildTaggedWithId ==
    standalone # NoContext =>
        IF HasChild(standalone.args.log)
        THEN /\ standalone.object.log.present
             /\ standalone.object.log.request_id = standalone.object.id
        ELSE ~standalone.object.log.present

\* The start was supplied explicitly: the argument is truthy.
StartSupplied == Truthy(standalone.args.start)

\* Every dt() returned the instant of the call minus start, and the returns never
\* decrease from one call to the next.
ElapsedFromStart ==
    /\ \A i \in DOMAIN elapsed : elapsed[i].dt = elapsed[i].at - standalone.object.start
    /\ \A i, j \in DOMAIN elapsed : i < j => elapsed[i].dt <= elapsed[j].dt
    /\ ~StartSupplied => standalone.object.start = standalone.at
    /\ StartSupplied => standalone.object.start = standalone.args.start.v

\* C15 as stated: for every Context dt() returns current time minus start, is never
\* negative and is non-decreasing across successive calls, with a captured start and
\* with a supplied one.
C15_ElapsedNeverNegative ==
    standalone # NoContext =>
        /\ ElapsedFromStart
        /\ \A i \in DOMAIN elapsed : elapsed[i].dt >= 0

\* C15 amended: for every Context dt() returns current time minus start and is
\* non-decreasing across successive calls; it is never negative when start was captured
\* at construction, or was supplied and is not later than the instant of construction.
C15_ElapsedFromStart ==
    standalone # NoContext =>
        /\ ElapsedFromStart
        /\ (~StartSupplied \/ standalone.args.start.v <= standalone.at) =>
              \A i \in DOMAIN elapsed : elapsed[i].dt >= 0

\* Two dt() calls, the clock having advanced in between, on a Context whose start was
\* supplied.
C15_Witness ==
    /\ standalone # NoContext
    /\ StartSupplied
    /\ standalone.args.start.v <= standalone.at
    /\ Len(elapsed) = 2
    /\ elapsed[1].at < elapsed[2].at
    /\ elapsed[1].dt < elapsed[2].dt

\* C18: handleContext returns normally, with and without an argument, an object whose
\* x-request-id is the inbound header when there is one and a generated identifier
\* otherwise.
C18_HandleContextReturns ==
    (standalone = NoContext /\ result # NotCalled) =>
        /\ result.kind = "returned"
        /\ LET given == IF input = Undef THEN [t |-> "object"] ELSE input
               header == Field(Field(given, "headers"), "xRequestId")
           IN  IF Truthy(header) THEN result.value.xRequestId = header
               ELSE Truthy(result.value.xRequestId)

(***************************************************************************)
(* Properties of serializeError and getFullErrorStack (SpecSerialize).     *)
(***************************************************************************)
\* The error the cause() accessor of x returns, null when x has no accessor or the
\* accessor returns nothing.
CauseOf(x) ==
    LET c == Field(x, "cause")
    IN  IF c.t = "function" /\ c.returns \in DOMAIN ErrorHeap THEN ErrorHeap[c.returns]
        ELSE Null

RECURSIVE Chain(_, _)
\* x followed by its causes, outermost first, cut after `fuel` elements.
Chain(x, fuel) ==
    IF fuel = 0 THEN <<>>
    ELSE IF CauseOf(x) = Null THEN <<x>>
    ELSE <<x>> \o Chain(CauseOf(x), fuel - 1)

\* More elements than the heap has errors: the chain of x runs into a cycle.
Cyclic(x) ==
    Len(Chain(x, Cardinality(DOMAIN ErrorHeap) + 2)) > Cardinality(DOMAIN ErrorHeap) + 1

\* The chain of causes of an error whose chain ends.
CausesOf(x) == Chain(x, Cardinality(DOMAIN ErrorHeap) + 1)

\* The stack text of x, its string representation when it has no stack.
Text(x) == IF "stack" \in DOMAIN x /\ x.stack.v # "" THEN x.stack.v ELSE toString(x).v

RECURSIVE Joined(_)
\* The texts of the elements, in order, a marker between consecutive ones.
Joined(chain) ==
    IF Len(chain) = 1 THEN Text(chain[1])
    ELSE Text(chain[1]) \o "\nCaused by: " \o Joined(Tail(chain))

HasStack(x) == Truthy(x) /\ Truthy(Field(x, "stack"))

\* C13: for an input that is falsy or has no stack serializeError returns the input
\* itself; for an input with a stack it returns a new record with exactly the fields
\* message, name, stack, code, signal and data, the input's own but for the stack, and
\* the input is what it was.
C13_IdentityOrRecord ==
    result.kind = "returned" =>
        /\ input \in SerializeInputs
        /\ IF ~HasStack(input)
           THEN result.value = input
           ELSE /\ DOMAIN result.value
                     = {"message", "name", "stack", "code", "signal", "data"}
                /\ result.value # input
                /\ result.value.stack.t = "string"
                /\ \A f \in {"message", "name", "code", "signal", "data"} :
                      result.value[f] = Field(input, f)

\* serializeError returned an error object that has no stack, unchanged.
C13_Witness ==
    /\ result.kind = "returned"
    /\ input = ErrorHeap["bare"]
    /\ result.value = input

\* C14 as stated: for an error with a chain of n causes, serializeError(err).stack is
\* the n+1 texts from the outermost error to the innermost cause with the n markers
\* between them, an element without a stack contributing its string representation.
C14_StackOfEveryChain ==
    (result.kind = "returned" /\ input \in {ErrorHeap[h] : h \in DOMAIN ErrorHeap}) =>
        Field(result.value, "stack") = Str(Joined(CausesOf(input)))

\* C14 amended: for an error that has a stack and a chain of n causes,
\* serializeError(err).stack is the n+1 texts from the outermost error to the innermost
\* cause with the n markers between them, a cause without a stack contributing its
\* string representation.
C14_StackOfStackedError ==
    (result.kind = "returned" /\ HasStack(input)) =>
        /\ result.value.stack = Str(Joined(CausesOf(input)))
        /\ result.value = serializeError(input)

\* The record of an error with four causes, one of them without a stack.
C14_Witness ==
    /\ result.kind = "returned"
    /\ input = ErrorHeap["deep"]
    /\ Len(CausesOf(input)) = 5
    /\ \E i \in 2..5 : ~HasStack(CausesOf(input)[i])

\* On a chain that ends, the traversal returns having visited each element once, in
\* order.
AcyclicVisitedOnce ==
    (result.kind \in {"returned", "throw"} /\ HasStack(input) /\ ~Cyclic(input)) =>
        /\ result.kind = "returned"
        /\ result.visited = CausesOf(input)
        /\ \A i, j \in DOMAIN result.visited : i # j => result.visited[i] # result.visited[j]

====
